---- MODULE Spec2Model ----
(***************************************************************************)
(* Model of the dashboard data-access layer in src/app/lib/data.ts.        *)
(*                                                                         *)
(* Every exported reader is an async function: it issues a request to the  *)
(* query client, awaits the answer, and goes on.  A call is modelled by    *)
(* one action per segment between two awaits.  The query client answers    *)
(* each request with a payload or with an error value.                     *)
(*                                                                         *)
(* Strings that the code inspects character by character (toLowerCase,     *)
(* includes, toString) are sequences of one-character strings.             *)
(* An optional value (null or a value) is the empty sequence or a          *)
(* one-element sequence.                                                   *)
(***************************************************************************)
EXTENDS Integers, Sequences, FiniteSets

VARIABLES
    db,         \* backend contents seen by the invoice search: invoices joined with their customer, date descending
    fn,         \* the reader being executed, "none" when no call is in progress
    args,       \* arguments of the call: [query, page, id]
    pc,         \* position of the call: idle, await1, await2, returned, raised
    requests,   \* requests issued to the query client by this call, in order
    responses,  \* answers received from the query client by this call, in order
    locals,     \* local variables that live across an await
    result      \* outcome of the call: [kind, value, message]

vars == <<db, fn, args, pc, requests, responses, locals, result>>

----------------------------------------------------------------------------
(* Bounds *)

MaxRows == 3          \* longest row list the query client returns to a list reader
MaxCustomerRows == 2  \* longest customer list returned to fetchFilteredCustomers
MaxCount == 2         \* largest customer head count
MaxInvoices == 13     \* largest number of invoices in the backend of the invoice search

----------------------------------------------------------------------------
(* Optional values, outcomes *)

Null == <<>>
Some(x) == <<x>>
IsNull(o) == o = <<>>
Get(o) == o[1]

\* seq of all sequences over S of length at most n
SeqsUpTo(S, n) == UNION {[1..k -> S] : k \in 0..n}

RECURSIVE SumSeq(_)
SumSeq(s) == IF s = <<>> THEN 0 ELSE s[1] + SumSeq(Tail(s))

NoResult == [kind |-> "none", value |-> <<>>, message |-> ""]
\* `return v`
Returned(v) == [kind |-> "value", value |-> <<v>>, message |-> ""]
\* `throw new Error(m)`
Raised(m) == [kind |-> "error", value |-> <<>>, message |-> m]

NoArgs == [query |-> <<>>, page |-> 0, id |-> ""]
NoLocals == [totalPaidInvoices |-> 0, totalPendingInvoices |-> 0, numberOfInvoices |-> 0, customers |-> <<>>]

\* an answer of the query client: a payload (data and/or count) or an error value, never both
ErrorResponse == [error |-> Some("backend failure"), data |-> Null, count |-> Null]
DataResponse(d) == [error |-> Null, data |-> Some(d), count |-> Null]
CountResponse(c) == [error |-> Null, data |-> Null, count |-> c]

Request(table, kind) == [table |-> table, kind |-> kind, from |-> 0, to |-> 0]

----------------------------------------------------------------------------
(* fetchInvoicesPages *)

ITEMS_PER_PAGE == 6

\* Math.floor in place of Math.ceil
MathCeilDiv_Floor(n, d) == n \div d

\* Math.ceil(n / d) for n >= 0, d > 0
MathCeilDiv(n, d) == IF n % d = 0 THEN n \div d ELSE (n \div d) + 1

\* count ?? 0
OrZero(c) == IF IsNull(c) THEN 0 ELSE Get(c)

totalPages(count) == MathCeilDiv(OrZero(count), ITEMS_PER_PAGE)

----------------------------------------------------------------------------
(* Shape of a call *)

\* entering an async reader and issuing its first request
Start(f, a, req) ==
    /\ pc = "idle"
    /\ fn' = f
    /\ args' = a
    /\ requests' = <<req>>
    /\ pc' = "await1"
    /\ UNCHANGED <<db, responses, locals, result>>

\* the promise of the call settles: fulfilled by return, rejected by throw
Settle(r) ==
    /\ result' = r
    /\ pc' = IF r.kind = "error" THEN "raised" ELSE "returned"

\* the caller has consumed the outcome; the per-call state is discarded
Done ==
    /\ pc \in {"returned", "raised"}
    /\ pc' = "idle"
    /\ fn' = "none"
    /\ args' = NoArgs
    /\ requests' = <<>>
    /\ responses' = <<>>
    /\ locals' = NoLocals
    /\ result' = NoResult
    /\ UNCHANGED db

----------------------------------------------------------------------------
(* fetchRevenue *)

RevenueRecords == {[month |-> "Jan", revenue |-> 2000], [month |-> "Feb", revenue |-> 1800]}
RevenueResponses == {ErrorResponse} \cup {DataResponse(d) : d \in SeqsUpTo(RevenueRecords, MaxRows)}

fetchRevenue_call ==
    /\ pc = "idle"
    /\ fn' = "fetchRevenue"
    /\ args' = NoArgs
    /\ pc' = "delay"
    /\ UNCHANGED <<db, requests, responses, locals, result>>

\* the artificial delay has elapsed: the select is issued
fetchRevenue_request ==
    /\ pc = "delay"
    /\ fn = "fetchRevenue"
    /\ requests' = Append(requests, Request("revenue", "rows"))
    /\ pc' = "await1"
    /\ UNCHANGED <<db, fn, args, responses, locals, result>>

\* the throw inside try is caught by the catch clause and raised again with the same message
fetchRevenue_outcome(resp) ==
    IF ~IsNull(resp.error)
    THEN Raised("Failed to fetch revenue data.")
    ELSE Returned(Get(resp.data))

fetchRevenue_resume ==
    /\ pc = "await1"
    /\ fn = "fetchRevenue"
    /\ \E resp \in RevenueResponses :
        /\ responses' = Append(responses, resp)
        /\ Settle(fetchRevenue_outcome(resp))
    /\ UNCHANGED <<db, fn, args, requests, locals>>

----------------------------------------------------------------------------
(* fetchCustomers *)

CustomerFields == {[id |-> "c1", name |-> "Amy"], [id |-> "c2", name |-> "Lee"]}
CustomersResponses == {ErrorResponse} \cup {DataResponse(d) : d \in SeqsUpTo(CustomerFields, MaxRows)}

fetchCustomers_call == Start("fetchCustomers", NoArgs, Request("customers", "rows"))

fetchCustomers_outcome(resp) ==
    IF ~IsNull(resp.error)
    THEN Raised("Failed to fetch all customers.")
    ELSE Returned(Get(resp.data))

fetchCustomers_resume ==
    /\ pc = "await1"
    /\ fn = "fetchCustomers"
    /\ \E resp \in CustomersResponses :
        /\ responses' = Append(responses, resp)
        /\ Settle(fetchCustomers_outcome(resp))
    /\ UNCHANGED <<db, fn, args, requests, locals>>

----------------------------------------------------------------------------
(* fetchInvoiceById *)

InvoiceIds == {"i1", "i2"}
StoredAmounts == {10000, 1550, 99, 0}
InvoiceForms ==
    [id : InvoiceIds, customer_id : {"c1", "c2"}, amount : StoredAmounts, status : {"paid", "pending"}]

\* .single(): the row, or no row (reported as an error value by the client, data null),
\* or a backend failure (error value, data null)
NoRowResponse == [error |-> Some("no rows"), data |-> Null, count |-> Null]
NullDataResponse == [error |-> Null, data |-> Null, count |-> Null]
InvoiceByIdResponses(id) ==
    {ErrorResponse, NoRowResponse, NullDataResponse}
        \cup {DataResponse(r) : r \in {f \in InvoiceForms : f.id = id}}

\* the amount returned as stored, the division left out
DivideBy100_NotDivided(amount) == [whole |-> amount, hundredths |-> 0]

\* data.amount / 100: the quotient as a decimal number with two fractional digits
DivideBy100(amount) == [whole |-> amount \div 100, hundredths |-> amount % 100]

\* only `data` is destructured: the error value of the answer is never read,
\* and the client reports failures as values, so the catch clause is not entered
fetchInvoiceById_outcome(resp) ==
    IF IsNull(resp.data)
    THEN Returned(Null)
    ELSE LET data == Get(resp.data)
         IN  Returned(Some([data EXCEPT !.amount = DivideBy100(data.amount)]))

fetchInvoiceById_call ==
    \E id \in InvoiceIds :
        Start("fetchInvoiceById", [NoArgs EXCEPT !.id = id], Request("invoices", "single"))

fetchInvoiceById_resume ==
    /\ pc = "await1"
    /\ fn = "fetchInvoiceById"
    /\ \E resp \in InvoiceByIdResponses(args.id) :
        /\ responses' = Append(responses, resp)
        /\ Settle(fetchInvoiceById_outcome(resp))
    /\ UNCHANGED <<db, fn, args, requests, locals>>

----------------------------------------------------------------------------
(* formatCurrency (./utils): the display string of an amount in minor units, *)
(* held as its parts: currency sign, whole units, two-digit cents            *)

formatCurrency(amount) == [sign |-> "$", whole |-> amount \div 100, cents |-> amount % 100]

----------------------------------------------------------------------------
(* fetchLatestInvoices *)

LatestCustomers ==
    [c1 |-> [id |-> "c1", name |-> "Amy", image_url |-> "/amy.png", email |-> "amy@x"],
     c2 |-> [id |-> "c2", name |-> "Lee", image_url |-> "/lee.png", email |-> "lee@x"]]

\* the joined customer relation of a row: a single record, an array of records, or missing
Single(c) == [shape |-> "single", recs |-> <<c>>]
Array(cs) == [shape |-> "array", recs |-> cs]
Missing == [shape |-> "missing", recs |-> <<>>]

LatestRelations ==
    {Missing, Single(LatestCustomers.c1), Single(LatestCustomers.c2),
     Array(<<>>), Array(<<LatestCustomers.c1>>), Array(<<LatestCustomers.c2>>)}

\* rows as the client returns them: the invoice identifier is unique per row
LatestRows(rels) ==
    [i \in 1..Len(rels) |->
        [id |-> i, amount |-> 1000 * i + 25, customer_id |-> rels[i]]]

LatestResponses ==
    {ErrorResponse} \cup {DataResponse(LatestRows(rels)) : rels \in SeqsUpTo(LatestRelations, MaxRows)}

\* the relation taken as a single record always: an array has no fields of its own
FirstOfRelation_NoArrayCase(rel) ==
    IF rel.shape = "single" THEN Some(rel.recs[1]) ELSE Null

\* Array.isArray(rel) ? rel[0] : rel    (undefined is Null)
FirstOfRelation(rel) ==
    IF rel.shape = "array"
    THEN IF rel.recs = <<>> THEN Null ELSE Some(rel.recs[1])
    ELSE IF rel.shape = "single" THEN Some(rel.recs[1]) ELSE Null

\* customer?.id
CustomerIdOf(invoice) ==
    LET customer == FirstOfRelation(invoice.customer_id)
    IN  IF IsNull(customer) THEN Null ELSE Some(Get(customer).id)

\* truthiness of customerId: undefined and the empty string are falsy
Truthy(idOpt) == ~IsNull(idOpt) /\ Get(idOpt) # ""

\* the for loop over data with the `seen` set, from position i on
RECURSIVE LatestByCustomerFrom(_, _, _, _)
LatestByCustomerFrom(data, i, seen, acc) ==
    IF i > Len(data) THEN acc
    ELSE LET customerId == CustomerIdOf(data[i])
         IN  IF Truthy(customerId) /\ Get(customerId) \notin seen
             THEN LatestByCustomerFrom(data, i + 1, seen \cup {Get(customerId)}, Append(acc, data[i]))
             ELSE LatestByCustomerFrom(data, i + 1, seen, acc)

\* the loop without the `seen` test
latestByCustomer_SeenIgnored(data) ==
    SelectSeq(data, LAMBDA invoice : Truthy(CustomerIdOf(invoice)))

latestByCustomer(data) == LatestByCustomerFrom(data, 1, {}, <<>>)

\* the map to display rows
LatestInvoiceRow(invoice) ==
    LET customer == FirstOfRelation(invoice.customer_id)
    IN  [id |-> invoice.id,
         amount |-> formatCurrency(invoice.amount),
         name |-> IF IsNull(customer) THEN "" ELSE Get(customer).name,
         image_url |-> IF IsNull(customer) THEN "" ELSE Get(customer).image_url,
         email |-> IF IsNull(customer) THEN "" ELSE Get(customer).email]

latestInvoices(data) ==
    LET kept == latestByCustomer(data)
    IN  [k \in 1..Len(kept) |-> LatestInvoiceRow(kept[k])]

fetchLatestInvoices_outcome(resp) ==
    IF ~IsNull(resp.error)
    THEN Raised("Failed to fetch the latest invoices.")
    ELSE Returned(latestInvoices(Get(resp.data)))

fetchLatestInvoices_call == Start("fetchLatestInvoices", NoArgs, Request("invoices", "rows"))

fetchLatestInvoices_resume ==
    /\ pc = "await1"
    /\ fn = "fetchLatestInvoices"
    /\ \E resp \in LatestResponses :
        /\ responses' = Append(responses, resp)
        /\ Settle(fetchLatestInvoices_outcome(resp))
    /\ UNCHANGED <<db, fn, args, requests, locals>>

----------------------------------------------------------------------------
(* fetchCardData *)

CardRows ==
    [amount : {100, 50, 25}, status : {"paid", "pending"}] \cup {[amount |-> 10, status |-> "overdue"]}

CardInvoiceResponses ==
    {ErrorResponse, NullDataResponse} \cup {DataResponse(d) : d \in SeqsUpTo(CardRows, MaxRows)}

CustomerCountResponses ==
    {ErrorResponse, CountResponse(Null)} \cup {CountResponse(Some(n)) : n \in 0..MaxCount}

\* the status test left out: every amount is added
TotalOfStatus_AnyStatus(data, status) ==
    SumSeq([i \in 1..Len(data) |-> data[i].amount])

\* the loop over data: the amounts of the rows of one status, added up in order
RECURSIVE TotalOfStatus(_, _)
TotalOfStatus(data, status) ==
    IF data = <<>> THEN 0
    ELSE (IF data[1].status = status THEN data[1].amount ELSE 0) + TotalOfStatus(Tail(data), status)

\* the totals after the invoice read; all stay 0 when data is null
CardTotals(dataOpt) ==
    IF IsNull(dataOpt)
    THEN NoLocals
    ELSE [NoLocals EXCEPT
            !.totalPaidInvoices = TotalOfStatus(Get(dataOpt), "paid"),
            !.totalPendingInvoices = TotalOfStatus(Get(dataOpt), "pending"),
            !.numberOfInvoices = Len(Get(dataOpt))]

fetchCardData_call == Start("fetchCardData", NoArgs, Request("invoices", "rows"))

\* the error of the invoice read not checked: the customer count is issued regardless
fetchCardData_resume1_ErrorIgnored ==
    /\ pc = "await1"
    /\ fn = "fetchCardData"
    /\ \E resp \in CardInvoiceResponses :
        /\ responses' = Append(responses, resp)
        /\ locals' = CardTotals(resp.data)
        /\ requests' = Append(requests, Request("customers", "count"))
        /\ pc' = "await2"
        /\ UNCHANGED result
    /\ UNCHANGED <<db, fn, args>>

\* after the invoice read: raise, or add up and issue the customer count
fetchCardData_resume1 ==
    /\ pc = "await1"
    /\ fn = "fetchCardData"
    /\ \E resp \in CardInvoiceResponses :
        /\ responses' = Append(responses, resp)
        /\ IF ~IsNull(resp.error)
           THEN /\ Settle(Raised("Failed to fetch card data."))
                /\ UNCHANGED <<requests, locals>>
           ELSE /\ locals' = CardTotals(resp.data)
                /\ requests' = Append(requests, Request("customers", "count"))
                /\ pc' = "await2"
                /\ UNCHANGED result
    /\ UNCHANGED <<db, fn, args>>

fetchCardData_outcome(resp, l) ==
    IF ~IsNull(resp.error)
    THEN Raised("Failed to fetch customer count.")
    ELSE Returned([totalPaidInvoices |-> l.totalPaidInvoices,
                   totalPendingInvoices |-> l.totalPendingInvoices,
                   numberOfInvoices |-> l.numberOfInvoices,
                   numberOfCustomers |-> OrZero(resp.count)])

fetchCardData_resume2 ==
    /\ pc = "await2"
    /\ fn = "fetchCardData"
    /\ \E resp \in CustomerCountResponses :
        /\ responses' = Append(responses, resp)
        /\ Settle(fetchCardData_outcome(resp, locals))
    /\ UNCHANGED <<db, fn, args, requests, locals>>

----------------------------------------------------------------------------
(* fetchFilteredCustomers *)

TableCustomers ==
    {[id |-> "c1", name |-> "Amy", email |-> "amy@x", image_url |-> "/amy.png"],
     [id |-> "c2", name |-> "Lee", email |-> "lee@x", image_url |-> "/lee.png"]}

CustomerInvoiceRows ==
    {[customer_id |-> c, amount |-> k.amount, status |-> k.status] :
        c \in {"c1", "c2"},
        k \in {[amount |-> 100, status |-> "paid"], [amount |-> 50, status |-> "pending"],
               [amount |-> 25, status |-> "paid"]}}
        \cup {[customer_id |-> "c3", amount |-> 100, status |-> "paid"]}

CustomerQueries == {<<"e">>}

MatchedCustomersResponses ==
    {ErrorResponse} \cup {DataResponse(d) : d \in SeqsUpTo(TableCustomers, MaxCustomerRows)}

CustomerInvoicesResponses ==
    {ErrorResponse} \cup {DataResponse(d) : d \in SeqsUpTo(CustomerInvoiceRows, MaxRows)}

\* the filter on the owning customer left out
custInvoices_Unfiltered(invoices, customer) == invoices

\* invoices.filter(inv => inv.customer_id === customer.id)
custInvoices(invoices, customer) == SelectSeq(invoices, LAMBDA inv : inv.customer_id = customer.id)

\* list.filter(inv => inv.status === status).reduce((sum, inv) => sum + inv.amount, 0)
RECURSIVE ReduceAmounts(_, _)
ReduceAmounts(list, sum) ==
    IF list = <<>> THEN sum ELSE ReduceAmounts(Tail(list), sum + list[1].amount)

StatusTotal(list, status) ==
    ReduceAmounts(SelectSeq(list, LAMBDA inv : inv.status = status), 0)

\* one element of customers.map(...)
CustomerTableRow(customer, invoices) ==
    LET mine == custInvoices(invoices, customer)
    IN  [id |-> customer.id, name |-> customer.name, email |-> customer.email,
         image_url |-> customer.image_url,
         total_invoices |-> Len(mine),
         total_pending |-> formatCurrency(StatusTotal(mine, "pending")),
         total_paid |-> formatCurrency(StatusTotal(mine, "paid"))]

customerMap(customers, invoices) ==
    [k \in 1..Len(customers) |-> CustomerTableRow(customers[k], invoices)]

fetchFilteredCustomers_call ==
    \E q \in CustomerQueries :
        Start("fetchFilteredCustomers", [NoArgs EXCEPT !.query = q], Request("customers", "rows"))

\* after the customer read: raise, or keep the customers and issue the invoice read
fetchFilteredCustomers_resume1 ==
    /\ pc = "await1"
    /\ fn = "fetchFilteredCustomers"
    /\ \E resp \in MatchedCustomersResponses :
        /\ responses' = Append(responses, resp)
        /\ IF ~IsNull(resp.error)
           THEN /\ Settle(Raised("Failed to fetch customer table."))
                /\ UNCHANGED <<requests, locals>>
           ELSE /\ locals' = [NoLocals EXCEPT !.customers = Get(resp.data)]
                /\ requests' = Append(requests, Request("invoices", "rows"))
                /\ pc' = "await2"
                /\ UNCHANGED result
    /\ UNCHANGED <<db, fn, args>>

fetchFilteredCustomers_outcome(resp, l) ==
    IF ~IsNull(resp.error)
    THEN Raised("Failed to fetch invoices for customers.")
    ELSE Returned(customerMap(l.customers, Get(resp.data)))

fetchFilteredCustomers_resume2 ==
    /\ pc = "await2"
    /\ fn = "fetchFilteredCustomers"
    /\ \E resp \in CustomerInvoicesResponses :
        /\ responses' = Append(responses, resp)
        /\ Settle(fetchFilteredCustomers_outcome(resp, locals))
    /\ UNCHANGED <<db, fn, args, requests, locals>>

----------------------------------------------------------------------------
(* JavaScript string operations on sequences of characters *)

UpperToLower ==
    [c \in {"A", "E", "L", "M", "Y", "P", "I", "D"} |->
        CASE c = "A" -> "a" [] c = "E" -> "e" [] c = "L" -> "l" [] c = "M" -> "m"
          [] c = "Y" -> "y" [] c = "P" -> "p" [] c = "I" -> "i" [] c = "D" -> "d"]

\* String.prototype.toLowerCase
toLowerCase(s) ==
    [i \in 1..Len(s) |-> IF s[i] \in DOMAIN UpperToLower THEN UpperToLower[s[i]] ELSE s[i]]

\* String.prototype.includes
includes(s, q) ==
    \E i \in 0..(Len(s) - Len(q)) : SubSeq(s, i + 1, i + Len(q)) = q

Digits == <<"0", "1", "2", "3", "4", "5", "6", "7", "8", "9">>

\* Number.prototype.toString for a non-negative integer
RECURSIVE NumberToString(_)
NumberToString(n) ==
    IF n < 10 THEN <<Digits[n + 1]>>
    ELSE Append(NumberToString(n \div 10), Digits[(n % 10) + 1])

----------------------------------------------------------------------------
(* The backend behind the invoice search: invoices joined with their customer *)

SearchCustomers ==
    <<[name |-> <<"L", "e", "e">>, email |-> <<"e", "@", "x">>, image_url |-> "/lee.png"],
      [name |-> <<"a", "m", "y">>, email |-> <<"a", "@", "l", "e">>, image_url |-> "/amy.png"]>>

Paid == <<"p", "a", "i", "d">>
Pending == <<"p", "e", "n", "d", "i", "n", "g">>

\* n invoices, newest first; invoice i belongs to customer ((i - 1) mod k) + 1
MakeDb(n, k) ==
    [i \in 1..n |->
        [id |-> i,
         amount |-> 100 * i + 50,
         date |-> <<"2", "3", "-">> \o NumberToString(99 - i),
         status |-> IF i % 2 = 1 THEN Paid ELSE Pending,
         customer |-> SearchCustomers[((i - 1) % k) + 1]]]

DbChoices == {MakeDb(n, k) : n \in 0..MaxInvoices, k \in 1..2}

SearchQueries == {<<>>, <<"l">>, <<"L">>, <<"l", "e">>, <<"a">>, <<"5">>}
MaxPage == 3

\* .ilike('customers.name', `%${query}%`): the invoices whose customer's name
\* contains the query, whatever the letter case
NameMatches(rows, query) ==
    SelectSeq(rows, LAMBDA inv : includes(toLowerCase(inv.customer.name), toLowerCase(query)))

\* { count: 'exact', head: true } on the name match
ServerCount(rows, query) == Len(NameMatches(rows, query))

\* .order('date', { ascending: false }).range(from, to) on the name match;
\* the joined customer comes back as a single record or as an array of one
ServerRead(rows, query, from, to, shape) ==
    LET matched == NameMatches(rows, query)
        last == IF to + 1 < Len(matched) THEN to + 1 ELSE Len(matched)
        page == SubSeq(matched, from + 1, last)
    IN  [i \in 1..Len(page) |->
            [id |-> page[i].id, amount |-> page[i].amount, date |-> page[i].date,
             status |-> page[i].status,
             customers |-> IF shape = "array" THEN Array(<<page[i].customer>>)
                           ELSE Single(page[i].customer)]]

----------------------------------------------------------------------------
(* fetchFilteredInvoices *)

RangeFrom(currentPage) == (currentPage - 1) * ITEMS_PER_PAGE
RangeTo(currentPage) == RangeFrom(currentPage) + ITEMS_PER_PAGE - 1

\* the .map callback
FlattenInvoice(invoice) ==
    LET customer == FirstOfRelation(invoice.customers)
    IN  [id |-> invoice.id, amount |-> invoice.amount, date |-> invoice.date,
         status |-> invoice.status,
         name |-> IF IsNull(customer) THEN <<>> ELSE Get(customer).name,
         email |-> IF IsNull(customer) THEN <<>> ELSE Get(customer).email,
         image_url |-> IF IsNull(customer) THEN "" ELSE Get(customer).image_url]

\* the .filter callback
KeepsInvoice(invoice, query) ==
    \/ includes(toLowerCase(invoice.email), toLowerCase(query))
    \/ includes(NumberToString(invoice.amount), query)
    \/ includes(invoice.date, query)
    \/ includes(toLowerCase(invoice.status), query)
    \/ includes(toLowerCase(invoice.name), query)

\* (data ?? []).map(...).filter(...)
filteredInvoices(dataOpt, query) ==
    LET data == IF IsNull(dataOpt) THEN <<>> ELSE Get(dataOpt)
        flat == [i \in 1..Len(data) |-> FlattenInvoice(data[i])]
    IN  SelectSeq(flat, LAMBDA invoice : KeepsInvoice(invoice, query))

fetchFilteredInvoices_outcome(resp, query) ==
    IF ~IsNull(resp.error)
    THEN Raised("Failed to fetch invoices.")
    ELSE Returned(filteredInvoices(resp.data, query))

fetchFilteredInvoices_call ==
    \E q \in SearchQueries, p \in 1..MaxPage :
        Start("fetchFilteredInvoices", [NoArgs EXCEPT !.query = q, !.page = p],
              [table |-> "invoices", kind |-> "rows", from |-> RangeFrom(p), to |-> RangeTo(p)])

fetchFilteredInvoices_resume ==
    /\ pc = "await1"
    /\ fn = "fetchFilteredInvoices"
    /\ \E resp \in {ErrorResponse} \cup
            {DataResponse(ServerRead(db, args.query, requests[1].from, requests[1].to, shape)) :
                shape \in {"single", "array"}} :
        /\ responses' = Append(responses, resp)
        /\ Settle(fetchFilteredInvoices_outcome(resp, args.query))
    /\ UNCHANGED <<db, fn, args, requests, locals>>

----------------------------------------------------------------------------
(* fetchInvoicesPages *)

fetchInvoicesPages_outcome(resp) ==
    IF ~IsNull(resp.error)
    THEN Raised("Failed to fetch total number of invoices.")
    ELSE Returned(totalPages(resp.count))

fetchInvoicesPages_call ==
    \E q \in SearchQueries :
        Start("fetchInvoicesPages", [NoArgs EXCEPT !.query = q], Request("invoices", "count"))

fetchInvoicesPages_resume ==
    /\ pc = "await1"
    /\ fn = "fetchInvoicesPages"
    /\ \E resp \in {ErrorResponse, CountResponse(Null),
                    CountResponse(Some(ServerCount(db, args.query)))} :
        /\ responses' = Append(responses, resp)
        /\ Settle(fetchInvoicesPages_outcome(resp))
    /\ UNCHANGED <<db, fn, args, requests, locals>>

----------------------------------------------------------------------------
(* Specifications *)

InitCall ==
    /\ fn = "none"
    /\ args = NoArgs
    /\ pc = "idle"
    /\ requests = <<>>
    /\ responses = <<>>
    /\ locals = NoLocals
    /\ result = NoResult

Init == db \in DbChoices /\ InitCall

Next ==
    \/ fetchRevenue_call
    \/ fetchRevenue_request
    \/ fetchRevenue_resume
    \/ fetchLatestInvoices_call
    \/ fetchLatestInvoices_resume
    \/ fetchCardData_call
    \/ fetchCardData_resume1
    \/ fetchCardData_resume2
    \/ fetchFilteredInvoices_call
    \/ fetchFilteredInvoices_resume
    \/ fetchInvoicesPages_call
    \/ fetchInvoicesPages_resume
    \/ fetchInvoiceById_call
    \/ fetchInvoiceById_resume
    \/ fetchCustomers_call
    \/ fetchCustomers_resume
    \/ fetchFilteredCustomers_call
    \/ fetchFilteredCustomers_resume1
    \/ fetchFilteredCustomers_resume2
    \/ Done

Spec == Init /\ [][Next]_vars

----------------------------------------------------------------------------
(* Properties *)

Value == result.value[1]
ReturnedFrom(f) == fn = f /\ pc = "returned"
FirstData == Get(responses[1].data)

\* positions 1..n in order
Positions(n) == [i \in 1..n |-> i]

\* the owning customer's identifier of a fetched row, if the row has a customer
OwnerOf(row) ==
    IF row.customer_id.recs = <<>> THEN Null ELSE Some(row.customer_id.recs[1].id)

\* C1: whenever the query client answers a request of a reader with an error value
\* (a backend failure), the call ends by raising and returns no value.
C1_FailureAlwaysRaises ==
    (\E i \in DOMAIN responses : responses[i].error = Some("backend failure"))
        => (pc = "raised" /\ result.kind = "error" /\ result.value = <<>>)

\* C2: fetchLatestInvoices never returns two rows that stem from invoices with the
\* same customer identifier, whatever the shape of the customer relation.
C2_NoTwoRowsOfOneCustomer ==
    ReturnedFrom("fetchLatestInvoices") =>
        \A i, j \in DOMAIN Value :
            i # j =>
                LET a == CHOOSE r \in {FirstData[k] : k \in DOMAIN FirstData} : r.id = Value[i].id
                    b == CHOOSE r \in {FirstData[k] : k \in DOMAIN FirstData} : r.id = Value[j].id
                IN  OwnerOf(a) # OwnerOf(b)

\* two fetched rows share a customer through different relation shapes, and rows were returned
C2_Witness ==
    /\ ReturnedFrom("fetchLatestInvoices")
    /\ Len(Value) = 2
    /\ \E i, j \in DOMAIN FirstData :
        /\ i # j
        /\ OwnerOf(FirstData[i]) = OwnerOf(FirstData[j])
        /\ ~IsNull(OwnerOf(FirstData[i]))
        /\ FirstData[i].customer_id.shape # FirstData[j].customer_id.shape

\* the positions of the fetched rows that are the first of their customer
FirstOfCustomer(data) ==
    SelectSeq(Positions(Len(data)),
              LAMBDA i : /\ ~IsNull(OwnerOf(data[i]))
                         /\ \A j \in 1..(i - 1) : OwnerOf(data[j]) # OwnerOf(data[i]))

\* C3: the output of fetchLatestInvoices is exactly the subsequence of the fetched
\* list made of the first invoice of each customer identifier, in fetched order.
C3_FirstInvoicePerCustomerInOrder ==
    ReturnedFrom("fetchLatestInvoices") =>
        LET first == FirstOfCustomer(FirstData)
        IN  /\ Len(Value) = Len(first)
            /\ \A k \in DOMAIN Value : Value[k].id = FirstData[first[k]].id
            /\ Len(Value) = Cardinality({Get(OwnerOf(FirstData[i])) :
                                i \in {p \in DOMAIN FirstData : ~IsNull(OwnerOf(FirstData[p]))}})

\* a later invoice of the first customer is dropped and two customers are kept in order
C3_Witness ==
    /\ ReturnedFrom("fetchLatestInvoices")
    /\ Len(FirstData) = 3
    /\ OwnerOf(FirstData[1]) = OwnerOf(FirstData[2])
    /\ ~IsNull(OwnerOf(FirstData[1]))
    /\ ~IsNull(OwnerOf(FirstData[3]))
    /\ OwnerOf(FirstData[3]) # OwnerOf(FirstData[1])
    /\ Len(Value) = 2
    /\ Value[1].id = FirstData[1].id
    /\ Value[2].id = FirstData[3].id

\* the amounts of the rows of a list that have the given status
AmountsOfStatus(list, status) ==
    LET sel == SelectSeq(list, LAMBDA inv : inv.status = status)
    IN  [i \in 1..Len(sel) |-> sel[i].amount]

\* C4: fetchCardData returns the sum of the paid amounts, the sum of the pending
\* amounts, the length of the invoice list, and the customer count or 0 when null.
C4_CardAggregates ==
    (ReturnedFrom("fetchCardData") /\ ~IsNull(responses[1].data)) =>
        /\ Value.totalPaidInvoices = SumSeq(AmountsOfStatus(FirstData, "paid"))
        /\ Value.totalPendingInvoices = SumSeq(AmountsOfStatus(FirstData, "pending"))
        /\ Value.numberOfInvoices = Len(FirstData)
        /\ Value.numberOfCustomers =
              (IF responses[2].count = Null THEN 0 ELSE responses[2].count[1])

\* a list with a paid, a pending and another status, and a null customer count
C4_Witness ==
    /\ ReturnedFrom("fetchCardData")
    /\ ~IsNull(responses[1].data)
    /\ {FirstData[i].status : i \in DOMAIN FirstData} = {"paid", "pending", "overdue"}
    /\ responses[2].count = Null
    /\ Value.numberOfCustomers = 0
    /\ Value.numberOfInvoices = 3

\* C5: fetchInvoicesPages returns the least n with 6 * n >= count (0 for 0, 1 for
\* 1..6, 2 for 7..12), a null count counting as 0.
C5_PagesIsCeiling ==
    ReturnedFrom("fetchInvoicesPages") =>
        LET count == IF responses[1].count = Null THEN 0 ELSE responses[1].count[1]
        IN  /\ 6 * Value >= count
            /\ \A n \in 0..count : 6 * n >= count => Value <= n
            /\ (count = 0 => Value = 0)
            /\ (count \in 1..6 => Value = 1)
            /\ (count \in 7..12 => Value = 2)

\* a count of 7 gives 2 pages
C5_Witness ==
    /\ ReturnedFrom("fetchInvoicesPages")
    /\ responses[1].count = <<7>>
    /\ Value = 2

\* C6: fetchInvoiceById returns null without raising when no row is found; a found
\* row comes back with its id, customer_id and status and with amount / 100.
C6_InvoiceByIdNullOrConverted ==
    (fn = "fetchInvoiceById" /\ Len(responses) = 1) =>
        /\ (responses[1] \in {NoRowResponse, NullDataResponse} =>
                pc = "returned" /\ Value = Null)
        /\ (~IsNull(responses[1].data) =>
                /\ pc = "returned"
                /\ Value # Null
                /\ Value[1].id = FirstData.id
                /\ Value[1].customer_id = FirstData.customer_id
                /\ Value[1].status = FirstData.status
                /\ 100 * Value[1].amount.whole + Value[1].amount.hundredths = FirstData.amount
                /\ Value[1].amount.hundredths \in 0..99
                /\ (FirstData.amount = 10000 =>
                        Value[1].amount = [whole |-> 100, hundredths |-> 0]))

\* a stored amount of 10000 comes back as 100
C6_Witness ==
    /\ ReturnedFrom("fetchInvoiceById")
    /\ ~IsNull(responses[1].data)
    /\ FirstData.amount = 10000
    /\ Value[1].amount.whole = 100

\* the display string of the sum of the amounts of a customer's invoices of a status
FormattedTotal(invoices, id, status) ==
    formatCurrency(SumSeq(AmountsOfStatus(
        SelectSeq(invoices, LAMBDA inv : inv.customer_id = id), status)))

\* C7: fetchFilteredCustomers returns one row per matched customer in the order of
\* the customer read, with the number of that customer's invoices and the formatted
\* sums of that customer's paid and pending amounts; other customers' invoices never
\* contribute and a customer without invoices gets 0, 0 and 0.
C7_PerCustomerAggregates ==
    ReturnedFrom("fetchFilteredCustomers") =>
        LET customers == FirstData
            invoices == Get(responses[2].data)
        IN  /\ Len(Value) = Len(customers)
            /\ \A k \in DOMAIN Value :
                /\ Value[k].id = customers[k].id
                /\ Value[k].name = customers[k].name
                /\ Value[k].total_invoices =
                      Cardinality({i \in DOMAIN invoices : invoices[i].customer_id = customers[k].id})
                /\ Value[k].total_paid = FormattedTotal(invoices, customers[k].id, "paid")
                /\ Value[k].total_pending = FormattedTotal(invoices, customers[k].id, "pending")
                /\ ((\A i \in DOMAIN invoices : invoices[i].customer_id # customers[k].id) =>
                        /\ Value[k].total_invoices = 0
                        /\ Value[k].total_paid = formatCurrency(0)
                        /\ Value[k].total_pending = formatCurrency(0))

\* the invoices {100, paid}, {50, pending}, {25, paid} of one customer give 3, 125 and 50
C7_Witness ==
    /\ ReturnedFrom("fetchFilteredCustomers")
    /\ Len(FirstData) = 2
    /\ FirstData[1].id # FirstData[2].id
    /\ Get(responses[2].data) =
          <<[customer_id |-> FirstData[2].id, amount |-> 100, status |-> "paid"],
            [customer_id |-> FirstData[2].id, amount |-> 50, status |-> "pending"],
            [customer_id |-> FirstData[2].id, amount |-> 25, status |-> "paid"]>>
    /\ Value[2].total_invoices = 3
    /\ Value[2].total_paid = formatCurrency(125)
    /\ Value[2].total_pending = formatCurrency(50)
    /\ Value[1].total_invoices = 0

\* the query is a substring of the field, letter case ignored
ContainsIgnoringCase(field, query) == includes(toLowerCase(field), toLowerCase(query))

\* C8: the client-side stage of fetchFilteredInvoices keeps a row if and only if the
\* query is a case-insensitive substring of its email, amount, date, status or name;
\* the kept rows are flattened and stay in the order of the read.
C8_FilterIgnoresCase ==
    ReturnedFrom("fetchFilteredInvoices") =>
        Value = SelectSeq([i \in DOMAIN FirstData |-> FlattenInvoice(FirstData[i])],
                          LAMBDA row :
                              \/ ContainsIgnoringCase(row.email, args.query)
                              \/ ContainsIgnoringCase(NumberToString(row.amount), args.query)
                              \/ ContainsIgnoringCase(row.date, args.query)
                              \/ ContainsIgnoringCase(row.status, args.query)
                              \/ ContainsIgnoringCase(row.name, args.query))

\* C9: in fetchCardData and fetchFilteredCustomers the second request is issued only
\* after the first has completed, each request is issued at most once, and when the
\* first completes with an error the second is never issued and the call raises.
C9_SequentialNoRetryAbort ==
    (fn \in {"fetchCardData", "fetchFilteredCustomers"}) =>
        LET first == IF fn = "fetchCardData" THEN "invoices" ELSE "customers"
            second == IF fn = "fetchCardData" THEN "customers" ELSE "invoices"
        IN  /\ Len(requests) \in 1..2
            /\ requests[1].table = first
            /\ (Len(requests) = 2 =>
                    /\ requests[2].table = second
                    /\ Len(responses) >= 1
                    /\ IsNull(responses[1].error))
            /\ Len(responses) <= Len(requests)
            /\ Len(requests) <= Len(responses) + 1
            /\ ((Len(responses) >= 1 /\ ~IsNull(responses[1].error)) =>
                    /\ Len(requests) = 1
                    /\ pc = "raised"
                    /\ result.kind = "error")

\* the first request of a two-request reader failed: the call has raised after one request
C9_Witness ==
    /\ fn = "fetchFilteredCustomers"
    /\ Len(responses) = 1
    /\ ~IsNull(responses[1].error)
    /\ pc = "raised"
    /\ Len(requests) = 1

\* C10: with unchanged backend contents the client-side filter of fetchFilteredInvoices
\* removes no row of the server-side name match, so page p of 1..fetchInvoicesPages(query)
\* requests the range [(p-1)*6, p*6-1], returns at most 6 rows, and the rows of all the
\* pages number exactly the count fetchInvoicesPages used.
C10_PagesCoverTheCount ==
    LET count == ServerCount(db, args.query)
        pages == totalPages(Some(count))
    IN  (ReturnedFrom("fetchFilteredInvoices") /\ args.page \in 1..pages) =>
            /\ requests[1].from = (args.page - 1) * 6
            /\ requests[1].to = args.page * 6 - 1
            /\ Len(Value) <= 6
            /\ Len(Value) = Len(FirstData)
            /\ Len(Value) = (IF args.page * 6 <= count THEN 6 ELSE count - (args.page - 1) * 6)

====
